---- MODULE Spec2Model ----
(***************************************************************************)
(* The wotstat Chrome-DevTools-Protocol bridge: CDPServer.py (WSClient,    *)
(* CDPServer) and CDPView.py (CDPModel, CDPView).                          *)
(*                                                                         *)
(* Two threads run the code.  The network thread (CDPServer._requestLoop)  *)
(* runs WSClient.connected / handle / handle_close and, through            *)
(* CDPServer.onViewCommand, CDPView.commandReceived.  The UI thread runs   *)
(* everything else: CDPView.__init__ and _finalize, the BigWorld callback  *)
(* throttleFlushRequests, the CDPModel commands (requestReceived,          *)
(* response), callers of CDPModel.sendRequest and CDPServer.dispose.       *)
(* A handler is split into one step per access to state the other thread   *)
(* also accesses (the globals instance and clients, CDPServer.views, and a *)
(* view's commandQueue, isThrottled and BigWorld callbacks); the code      *)
(* between two such accesses touches only state of its own thread and is   *)
(* part of the step.                                                       *)
(*                                                                         *)
(* One CDPView (page id PageId, the first view the injector of            *)
(* WotstatChromeDevtoolsProtocol.py builds) is followed through its life;  *)
(* the other views the injector builds are only entries of the registry.   *)
(* The whole program (Spec) is checked in parts: each of SpecThrottle,     *)
(* SpecModel, SpecServer, SpecRegistry, SpecClients and SpecShutdown has   *)
(* the operations that touch the state its claims are about.               *)
(***************************************************************************)
EXTENDS Integers, Sequences, FiniteSets, TLC

(* Bounds of the model. *)
MaxFrames == 3
MaxConns == 1
MaxApi == 2
MaxResponses == 2
MaxCloses == 1
MaxSends == 2
MaxTabs == 3
MaxClients == 2
MaxLists == 2

None == "None"
PageId == "V#1"
UnknownId == "X#9"
View == [pageId |-> PageId, pageName |-> "V"]
Server == "server"

(* Class names of the views the injector gives a CDPView to. *)
ClassNames == {"V", "W"}

(* The page id the injector makes: '%s#%d' % (className, self.tabId) *)
pageId(className, n) == className \o "#" \o ToString(n)

(* Request paths of WebSocket upgrades, as the segments between slashes. *)
Paths == {<<"ws", PageId>>, <<"ws", UnknownId>>, <<"devtools">>}
Results == {"ok", "err"}
NoCallback == 0

VARIABLES
  instance,       \* CDPServer.py global `instance`: Server or None
  serverOpen,     \* CDPServer.enabled and the listening WebSocketServer not closed
  views,          \* CDPServer.views: page id -> view
  clients,        \* CDPServer.py global `clients`: viewId -> connection
  conns,          \* open connections: connection -> request path
  netPc,          \* position of the network thread
  netFrame,       \* the frame the network thread is handling
  netError,       \* exceptions raised out of WSClient.handle, one record each, with
                  \* the frame and the place (netPc) of the raise
  viewStage,      \* life of the CDPView: none, registered, flag, ready, finalized, disposed
  isThrottled,    \* CDPView.isThrottled
  commandQueue,   \* CDPView.commandQueue
  timers,         \* pending BigWorld callbacks of throttleFlushRequests
  uiPc,           \* position of the UI thread
  viewModel,      \* the CDPModel of the view
  hist,           \* history: what was passed to whom so far (not program state)
  tabId           \* WotstatChromeDevtoolsProtocol.tabId

vars == <<instance, serverOpen, views, clients, conns, netPc, netFrame, netError,
          viewStage, isThrottled, commandQueue, timers, uiPc, viewModel, hist, tabId>>

serverVars == <<instance, serverOpen, views, clients, conns>>
netVars == <<netPc, netFrame, netError>>
viewVars == <<viewStage, isThrottled, commandQueue, timers>>

Last(s) == s[Len(s)]

NoFrame == [conn |-> 0, viewId |-> None, json |-> FALSE, n |-> 0, unreg |-> FALSE]

(* WSClient.viewId: the path suffix after '/ws/', None for any other path. *)
viewId(path) ==
  IF Len(path) >= 2 /\ path[1] = "ws" THEN path[2] ELSE None

(***************************************************************************)
(* CDPModel.  A model state m is the pair [vm, h] of the CDPModel fields   *)
(* and the history; every method maps such a pair to the pair after it.    *)
(* requestsQueue and callbacks are None after _finalize: the flags         *)
(* requestsQueueIsNone and callbacksIsNone say so.                         *)
(***************************************************************************)
InitModel ==
  [ requestsQueue |-> <<>>, requestsQueueIsNone |-> FALSE,
    callbacks |-> <<>>, callbacksIsNone |-> FALSE,
    requestId |-> 0, lastRequestReceived |-> TRUE, subscribed |-> TRUE ]

InitHist ==
  [ frames |-> 0,          \* frames received
    received |-> <<>>,     \* commands passed to commandReceived
    sentBatches |-> <<>>,  \* batches passed to viewModel.sendRequest by throttleFlushRequests
    assigned |-> <<>>,     \* requests given an id by sendRequest
    registered |-> <<>>,   \* ids stored in callbacks
    transmitted |-> <<>>,  \* messages passed to __setRequest
    unacked |-> 0,         \* messages passed to __setRequest since the last requestReceived
    invoked |-> <<>>,      \* callbacks invoked by __onResponse
    raised |-> 0,          \* exceptions raised out of sendRequest
    apiCalls |-> 0,        \* calls of sendRequest with a callback
    responses |-> 0,       \* response commands handled
    lastResponse |-> [ok |-> FALSE, id |-> 0, result |-> "ok"],
    answered |-> <<>>,     \* id -> result of the first response to it after its transmission
    closes |-> 0,          \* calls of connectionClosed
    dropped |-> {},        \* callbacks pending at a teardown
    sinceArm |-> <<>>,     \* commands enqueued since the pending timer was armed
    closedSinceArm |-> FALSE,  \* connectionClosed ran since the pending timer was armed
    lastInterval |-> <<>>, \* sinceArm at the last firing
    lastClosed |-> FALSE,  \* closedSinceArm at the last firing
    batchesOfArm |-> 0,    \* batches produced by firings since the last arming
    emptyFires |-> 0,      \* firings that found the commandQueue empty
    teardowns |-> 0,       \* CDPView._finalize runs
    assignedAtTeardown |-> 0,   \* Len(assigned) when CDPView._finalize began
    openAtClose |-> 0,     \* connections open when CDPServer.dispose closed the server
    sends |-> 0,           \* sendCommand commands fired by the UI
    written |-> <<>>,      \* frames passed to send_message_text: the connection, and
                           \* whether it was open
    created |-> <<>>,      \* page ids the injector made, in order
    live |-> {},           \* the views built by onLoading and not finalized
    lists |-> 0,           \* GET /json/list requests answered
    lastList |-> <<>>,     \* entries of the last /json/list response
    listedViews |-> <<>> ] \* CDPServer.views when that request was handled

Request(kind, body) == [kind |-> kind, body |-> body]

(* CDPModel.__setRequest *)
setRequest(m, value) ==
  [m EXCEPT !.h.transmitted =
     Append(@, [id |-> value.id, request |-> value.request,
                late |-> m.vm.callbacksIsNone]),
            !.h.unacked = @ + 1]

(* __processNextRequest without the test of lastRequestReceived. *)
processNextRequestNoGate(m) ==
  IF m.vm.requestsQueueIsNone
    THEN [m EXCEPT !.h.raised = @ + 1]
  ELSE IF Len(m.vm.requestsQueue) = 0 THEN m
  ELSE
    LET head == Head(m.vm.requestsQueue)
        m1 == [m EXCEPT !.vm.lastRequestReceived = FALSE,
                        !.vm.requestsQueue = Tail(@)]
    IN IF head.callback # NoCallback /\ m.vm.callbacksIsNone
         THEN [m1 EXCEPT !.h.raised = @ + 1]
       ELSE
         LET m2 == IF head.callback # NoCallback
                     THEN [m1 EXCEPT
                             !.vm.callbacks = (head.id :> head.callback) @@ @,
                             !.h.registered = Append(@, head.id)]
                     ELSE m1
         IN setRequest(m2, [id |-> head.id, request |-> head.request])

(* __processNextRequest storing the callback under self.requestId, the id of *)
(* the newest request, for the id of the request it transmits.               *)
processNextRequestNewestId(m) ==
  IF m.vm.requestsQueueIsNone
    THEN [m EXCEPT !.h.raised = @ + 1]
  ELSE IF Len(m.vm.requestsQueue) = 0 THEN m
  ELSE IF ~m.vm.lastRequestReceived THEN m
  ELSE
    LET head == Head(m.vm.requestsQueue)
        m1 == [m EXCEPT !.vm.lastRequestReceived = FALSE,
                        !.vm.requestsQueue = Tail(@)]
    IN IF head.callback # NoCallback /\ m.vm.callbacksIsNone
         THEN [m1 EXCEPT !.h.raised = @ + 1]
       ELSE
         LET m2 == IF head.callback # NoCallback
                     THEN [m1 EXCEPT
                             !.vm.callbacks = (m.vm.requestId :> head.callback) @@ @,
                             !.h.registered = Append(@, m.vm.requestId)]
                     ELSE m1
         IN setRequest(m2, [id |-> head.id, request |-> head.request])

(* CDPModel.__processNextRequest *)
processNextRequest(m) ==
  IF m.vm.requestsQueueIsNone
    THEN [m EXCEPT !.h.raised = @ + 1]                       \* len(None)
  ELSE IF Len(m.vm.requestsQueue) = 0 THEN m
  ELSE IF ~m.vm.lastRequestReceived THEN m
  ELSE
    LET head == Head(m.vm.requestsQueue)
        m1 == [m EXCEPT !.vm.lastRequestReceived = FALSE,
                        !.vm.requestsQueue = Tail(@)]
    IN IF head.callback # NoCallback /\ m.vm.callbacksIsNone
         THEN [m1 EXCEPT !.h.raised = @ + 1]                  \* None[requestId] = callback
       ELSE
         LET m2 == IF head.callback # NoCallback
                     THEN [m1 EXCEPT
                             !.vm.callbacks = (head.id :> head.callback) @@ @,
                             !.h.registered = Append(@, head.id)]
                     ELSE m1
         IN setRequest(m2, [id |-> head.id, request |-> head.request])

(* CDPModel.sendRequest *)
sendRequest(m, request, callback) ==
  LET m1 == [m EXCEPT !.vm.requestsQueue = IF m.vm.requestsQueueIsNone THEN <<>> ELSE @,
                      !.vm.requestsQueueIsNone = FALSE]
      id == m1.vm.requestId + 1
      m2 == [m1 EXCEPT !.vm.requestId = id,
                       !.vm.requestsQueue =
                          Append(@, [id |-> id, request |-> request, callback |-> callback]),
                       !.h.assigned =
                          Append(@, [id |-> id, request |-> request, callback |-> callback])]
  IN processNextRequest(m2)

(* clearRequests that also starts the request counter again. *)
clearRequestsResetId(m) ==
  IF ~m.vm.requestsQueueIsNone
    THEN [m EXCEPT !.vm.requestsQueue = <<>>, !.vm.requestId = 0]
    ELSE m

(* CDPModel.clearRequests *)
clearRequests(m) ==
  IF ~m.vm.requestsQueueIsNone THEN [m EXCEPT !.vm.requestsQueue = <<>>] ELSE m

(* CDPModel.__onRequestReceived *)
onRequestReceived(m) ==
  processNextRequest([m EXCEPT !.vm.lastRequestReceived = TRUE, !.h.unacked = 0])

(* __onResponse reading self.callbacks[requestId] where the code pops it. *)
onResponseNoPop(m, resp) ==
  IF ~resp.ok THEN m
  ELSE IF resp.id = 0 THEN m
  ELSE IF m.vm.callbacksIsNone THEN m
  ELSE IF resp.id \notin DOMAIN m.vm.callbacks THEN m
  ELSE
    [m EXCEPT
       !.h.invoked = Append(@, [callback |-> m.vm.callbacks[resp.id],
                                result |-> resp.result, id |-> resp.id,
                                dropped |-> m.vm.callbacks[resp.id] \in m.h.dropped])]

(* CDPModel.__onResponse.  resp.ok is FALSE for a response that json.loads or *)
(* .get rejects; resp.id is 0 for a null or missing id.                       *)
onResponse(m, resp) ==
  IF ~resp.ok THEN m
  ELSE IF resp.id = 0 THEN m
  ELSE IF m.vm.callbacksIsNone THEN m                          \* `in None`, caught
  ELSE IF resp.id \notin DOMAIN m.vm.callbacks THEN m
  ELSE
    [m EXCEPT
       !.vm.callbacks = [k \in (DOMAIN @) \ {resp.id} |-> @[k]],
       !.h.invoked = Append(@, [callback |-> m.vm.callbacks[resp.id],
                                result |-> resp.result, id |-> resp.id,
                                dropped |-> m.vm.callbacks[resp.id] \in m.h.dropped])]

(* CDPModel._finalize *)
modelFinalize(m) ==
  [m EXCEPT !.vm.subscribed = FALSE,
            !.vm.requestsQueue = <<>>, !.vm.requestsQueueIsNone = TRUE,
            !.h.dropped = @ \cup {m.vm.callbacks[k] : k \in DOMAIN m.vm.callbacks},
            !.vm.callbacks = <<>>, !.vm.callbacksIsNone = TRUE]

Model == [vm |-> viewModel, h |-> hist]

SetModel(m) == viewModel' = m.vm /\ hist' = m.h

Init ==
  /\ instance = Server
  /\ serverOpen = TRUE
  /\ views = <<>>
  /\ clients = <<>>
  /\ conns = <<>>
  /\ netPc = "idle"
  /\ netFrame = NoFrame
  /\ netError = <<>>
  /\ viewStage = "none"
  /\ isThrottled = FALSE
  /\ commandQueue = <<>>
  /\ timers = 0
  /\ uiPc = "idle"
  /\ viewModel = InitModel
  /\ hist = InitHist
  /\ tabId = 0


(***************************************************************************)
(* The network thread.                                                     *)
(***************************************************************************)
NetReturn ==
  /\ netPc' = "idle"
  /\ netFrame' = NoFrame
  /\ netError' = netError

NetRaise(exc) ==
  /\ netPc' = "idle"
  /\ netFrame' = NoFrame
  /\ netError' = Append(netError, [exc |-> exc, n |-> netFrame.n, unreg |-> netFrame.unreg,
                                  at |-> netPc])

NetGoto(pc) ==
  /\ netPc' = pc
  /\ UNCHANGED <<netFrame, netError>>

(* WSClient.connected: a WebSocket upgrade on any path is accepted. *)
connected(c, path) ==
  /\ netPc = "idle" /\ serverOpen
  /\ c \notin DOMAIN conns
  /\ conns' = (c :> path) @@ conns
  /\ clients' = (viewId(path) :> c) @@ clients
  /\ UNCHANGED <<tabId, instance, serverOpen, views, netVars, viewVars, uiPc, viewModel, hist>>

(* WSClient.handle_close *)
handle_close(c) ==
  /\ netPc = "idle" /\ serverOpen
  /\ c \in DOMAIN conns
  /\ conns' = [k \in (DOMAIN conns) \ {c} |-> conns[k]]
  /\ clients' = [k \in (DOMAIN clients) \ {viewId(conns[c])} |-> clients[k]]
  /\ UNCHANGED <<tabId, instance, serverOpen, views, netVars, viewVars, uiPc, viewModel, hist>>

(* A text frame arrives on connection c; json says whether json.loads accepts it. *)
(* Its command is the frame's number.                                             *)
frameReceived(c, json) ==
  /\ netPc = "idle" /\ serverOpen
  /\ c \in DOMAIN conns
  /\ hist.frames < MaxFrames
  /\ netPc' = "handle54"
  /\ netFrame' = [conn |-> c, viewId |-> viewId(conns[c]), json |-> json,
                  n |-> hist.frames + 1,
                  unreg |-> viewId(conns[c]) \notin DOMAIN views]
  /\ hist' = [hist EXCEPT !.frames = @ + 1]
  /\ UNCHANGED <<tabId, serverVars, netError, viewVars, uiPc, viewModel>>

(* WSClient.handle, line 54: if instance is None: return *)
handle54 ==
  /\ netPc = "handle54"
  /\ IF instance = None THEN NetReturn ELSE NetGoto("handle56")
  /\ UNCHANGED <<tabId, serverVars, viewVars, uiPc, viewModel, hist>>

(* WSClient.handle, lines 55-56: the viewId test, then `instance.views` read again *)
handle56 ==
  /\ netPc = "handle56"
  /\ IF netFrame.viewId = None THEN NetReturn
     ELSE IF instance = None THEN NetRaise("AttributeError")
     ELSE IF netFrame.viewId \notin DOMAIN views THEN NetReturn
     ELSE NetGoto("handle64")
  /\ UNCHANGED <<tabId, serverVars, viewVars, uiPc, viewModel, hist>>

(* WSClient.handle, lines 58-64: json.loads, then `instance.onViewCommand` *)
handle64 ==
  /\ netPc = "handle64"
  /\ IF ~netFrame.json THEN NetReturn
     ELSE IF instance = None THEN NetRaise("AttributeError")
     ELSE NetGoto("onViewCommand117")
  /\ UNCHANGED <<tabId, serverVars, viewVars, uiPc, viewModel, hist>>

(* CDPServer.onViewCommand, line 117 *)
onViewCommand117 ==
  /\ netPc = "onViewCommand117"
  /\ IF netFrame.viewId \notin DOMAIN views THEN NetReturn
     ELSE NetGoto("onViewCommand120")
  /\ UNCHANGED <<tabId, serverVars, viewVars, uiPc, viewModel, hist>>

(* CDPServer.onViewCommand, lines 120-121: self.views[viewId], then the call of *)
(* view.commandReceived(command)                                                *)
onViewCommand120 ==
  /\ netPc = "onViewCommand120"
  /\ IF netFrame.viewId \notin DOMAIN views
       THEN NetRaise("KeyError")
       ELSE NetGoto("throttle146")
  /\ UNCHANGED <<tabId, serverVars, viewVars, uiPc, viewModel, hist>>

(* CDPServer._requestLoop, line 100: the test of the while loop. *)
requestLoopRunsForever(enabled, connections) == TRUE

requestLoopRuns(enabled, connections) == enabled \/ connections # {}

(* CDPServer._requestLoop leaves its loop: the thread of the server ends.   *)
(* An exception of server.handle_request() is caught in the loop (lines     *)
(* 101-104) and leads back to the test.                                     *)
requestLoopExit ==
  /\ netPc = "idle"
  /\ ~requestLoopRuns(serverOpen, DOMAIN conns)
  /\ netPc' = "exited"
  /\ UNCHANGED <<tabId, serverVars, netFrame, netError, viewVars, uiPc, viewModel, hist>>

(* The items of WSClient.handle_http_request, lines 32-45: one per view of  *)
(* the list vs of views, with its id, title and webSocketDebuggerUrl.       *)
RECURSIVE listItems(_)
listItems(vs) ==
  IF vs = <<>> THEN <<>>
  ELSE <<[id |-> Head(vs).pageId, title |-> Head(vs).pageName,
          webSocketDebuggerUrl |-> <<"ws", Head(vs).pageId>>]>> \o listItems(Tail(vs))

(* dict.values(): the values of the dict in some order. *)
RECURSIVE values(_)
values(d) ==
  IF DOMAIN d = {} THEN <<>>
  ELSE LET k == CHOOSE k \in DOMAIN d : TRUE
       IN <<d[k]>> \o values([j \in (DOMAIN d) \ {k} |-> d[j]])

(* WSClient.handle_http_request for GET /json/list, lines 30-49.            *)
(* instance.views.values() is one snapshot of the registry.                 *)
jsonList ==
  /\ netPc = "idle" /\ serverOpen
  /\ hist.lists < MaxLists
  /\ IF instance = None
       THEN /\ netError' = Append(netError, [exc |-> "AttributeError", n |-> 0,
                                             unreg |-> FALSE, at |-> "jsonList"])
            /\ hist' = [hist EXCEPT !.lists = @ + 1]
       ELSE /\ netError' = netError
            /\ hist' = [hist EXCEPT !.lists = @ + 1,
                                    !.lastList = listItems(values(views)),
                                    !.listedViews = views]
  /\ UNCHANGED <<tabId, serverVars, netPc, netFrame, viewVars, uiPc, viewModel>>

(* CDPView.commandReceived and throttleSendRequest, line 146:               *)
(* self.commandQueue.put(request).  The view has no commandQueue before     *)
(* line 119 of __init__ has run.                                            *)
throttle146 ==
  /\ netPc = "throttle146"
  /\ IF viewStage \in {"registered", "flag"}
       THEN /\ NetRaise("AttributeError")
            /\ commandQueue' = commandQueue
            /\ hist' = [hist EXCEPT !.received = Append(@, netFrame.n)]
       ELSE /\ NetGoto("throttle148")
            /\ commandQueue' = Append(commandQueue, netFrame.n)
            /\ hist' = [hist EXCEPT !.received = Append(@, netFrame.n),
                                    !.sinceArm =
                                       IF timers > 0 THEN Append(@, netFrame.n) ELSE @]
  /\ UNCHANGED <<tabId, serverVars, viewStage, isThrottled, timers, uiPc, viewModel>>

(* throttleSendRequest without the test of isThrottled: every command arms. *)
throttle148NoTest ==
  /\ netPc = "throttle148"
  /\ NetGoto("throttle149")
  /\ UNCHANGED <<tabId, serverVars, viewVars, uiPc, viewModel, hist>>

(* CDPView.throttleSendRequest, line 148: if not self.isThrottled *)
throttle148 ==
  /\ netPc = "throttle148"
  /\ IF isThrottled THEN NetReturn ELSE NetGoto("throttle149")
  /\ UNCHANGED <<tabId, serverVars, viewVars, uiPc, viewModel, hist>>

(* CDPView.throttleSendRequest, line 149: self.isThrottled = True *)
throttle149 ==
  /\ netPc = "throttle149"
  /\ isThrottled' = TRUE
  /\ NetGoto("throttle150")
  /\ UNCHANGED <<tabId, serverVars, viewStage, commandQueue, timers, uiPc, viewModel, hist>>

(* CDPView.throttleSendRequest, line 150: BigWorld.callback(1/30, ...) *)
throttle150 ==
  /\ netPc = "throttle150"
  /\ timers' = timers + 1
  /\ NetReturn
  /\ hist' = [hist EXCEPT !.sinceArm = <<>>, !.closedSinceArm = FALSE,
                          !.batchesOfArm = 0]
  /\ UNCHANGED <<tabId, serverVars, viewStage, isThrottled, commandQueue, uiPc, viewModel>>


(***************************************************************************)
(* The UI thread.                                                          *)
(***************************************************************************)

(* CDPServer.viewPopulate registering the view under its pageName. *)
populateByName(vs, view) == (view.pageName :> view) @@ vs

(* CDPServer.viewPopulate: self.views[view.pageId] = view *)
populate(vs, view) == (view.pageId :> view) @@ vs

(* CDPServer.viewDispose *)
unregister(vs, view) ==
  IF view.pageId \in DOMAIN vs THEN [k \in (DOMAIN vs) \ {view.pageId} |-> vs[k]] ELSE vs

(* The injector's onLoading, lines 51-55, for the first view ("V#1", the    *)
(* view followed through its life), with CDPView.__init__, lines 107-116:   *)
(* the view and its CDPModel are built and the view is registered           *)
(* (CDPServer.viewPopulate) before lines 118-119.                           *)
viewPopulate ==
  /\ uiPc = "idle" /\ viewStage = "none"
  /\ pageId("V", tabId + 1) = PageId
  /\ tabId' = tabId + 1
  /\ views' = populate(views, View)
  /\ viewStage' = "registered"
  /\ uiPc' = "init118"
  /\ netFrame' = IF netFrame.viewId = PageId THEN [netFrame EXCEPT !.unreg = FALSE]
                 ELSE netFrame
  /\ hist' = [hist EXCEPT !.created = Append(@, PageId)]
  /\ UNCHANGED <<instance, serverOpen, clients, conns, netPc, netError,
                 isThrottled, commandQueue, timers, viewModel>>

(* CDPView.__init__, line 118: self.isThrottled = False *)
init118 ==
  /\ uiPc = "init118"
  /\ isThrottled' = FALSE
  /\ viewStage' = "flag"
  /\ uiPc' = "init119"
  /\ UNCHANGED <<tabId, serverVars, netVars, commandQueue, timers, viewModel, hist>>

(* CDPView.__init__, line 119: self.commandQueue = Queue.Queue() *)
init119 ==
  /\ uiPc = "init119"
  /\ commandQueue' = <<>>
  /\ viewStage' = "ready"
  /\ uiPc' = "idle"
  /\ UNCHANGED <<tabId, serverVars, netVars, isThrottled, timers, viewModel, hist>>

(* drain with `if` for `while`: one command is taken, the rest stays queued. *)
drainOne(queue) ==
  IF queue = <<>> THEN [batch |-> <<>>, rest |-> <<>>]
  ELSE [batch |-> <<Head(queue)>>, rest |-> Tail(queue)]

(* CDPView.throttleFlushRequests, lines 153-155: the loop that empties the queue. *)
drain(queue) == [batch |-> queue, rest |-> <<>>]

(* CDPView.throttleFlushRequests, lines 153-157, run by a BigWorld callback.    *)
(* The batch is private to the UI thread until sendRequest has it, and          *)
(* sendRequest works on the CDPModel, which only the UI thread uses: a put of   *)
(* the network thread during these lines has the effect of one before or after. *)
throttleFlushRequests ==
  /\ uiPc = "idle" /\ timers > 0
  /\ timers' = timers - 1
  /\ LET d == drain(commandQueue)
         m == [Model EXCEPT !.h.sentBatches = Append(@, d.batch),
                            !.h.lastInterval = hist.sinceArm,
                            !.h.lastClosed = hist.closedSinceArm,
                            !.h.sinceArm = <<>>,
                            !.h.batchesOfArm = @ + 1,
                            !.h.emptyFires = IF commandQueue = <<>> THEN @ + 1 ELSE @]
     IN /\ commandQueue' = d.rest
        /\ SetModel(sendRequest(m, Request("batch", d.batch), NoCallback))
  /\ uiPc' = "flush158"
  /\ UNCHANGED <<tabId, serverVars, netVars, viewStage, isThrottled>>

(* CDPView.throttleFlushRequests, line 158: self.isThrottled = False *)
flush158 ==
  /\ uiPc = "flush158"
  /\ isThrottled' = FALSE
  /\ uiPc' = "idle"
  /\ UNCHANGED <<tabId, serverVars, netVars, viewStage, commandQueue, timers, viewModel, hist>>

(* CDPView.connectionClosed.  Nothing in the repository calls it; it is     *)
(* taken to run on the UI thread, like every other user of the CDPModel.    *)
connectionClosed ==
  /\ uiPc = "idle" /\ viewStage = "ready"
  /\ hist.closes < MaxCloses
  /\ commandQueue' = <<>>
  /\ LET m == [Model EXCEPT
                 !.h.closes = @ + 1,
                 !.h.closedSinceArm = (@ \/ timers > 0),
                 !.h.dropped = @ \cup {viewModel.callbacks[k] : k \in DOMAIN viewModel.callbacks}]
     IN SetModel(sendRequest(clearRequests(m), Request("DISCONNECT", <<>>), NoCallback))
  /\ UNCHANGED <<tabId, serverVars, netVars, viewStage, isThrottled, timers, uiPc>>

(* A caller of CDPModel.sendRequest(request, callback=None): with a callback *)
(* of its own (the number of the call), or with none.                        *)
apiSendRequest(withCallback) ==
  /\ uiPc = "idle" /\ viewStage \in {"ready", "disposed"}
  /\ hist.apiCalls < MaxApi
  /\ LET n == hist.apiCalls + 1
         m == [Model EXCEPT !.h.apiCalls = n]
     IN SetModel(sendRequest(m, Request("api", <<n>>),
                             IF withCallback THEN n ELSE NoCallback))
  /\ UNCHANGED <<tabId, serverVars, netVars, viewVars, uiPc>>

(* The UI fires the requestReceived command. *)
requestReceived ==
  /\ uiPc = "idle" /\ viewStage # "none"
  /\ viewModel.subscribed
  /\ SetModel(onRequestReceived(Model))
  /\ UNCHANGED <<tabId, serverVars, netVars, viewVars, uiPc>>

(* The responses the UI can fire: malformed, or an id (0 for null) and a result. *)
Responses ==
  {[ok |-> FALSE, id |-> 0, result |-> "ok"]}
    \cup [ok : {TRUE}, id : 0 .. (viewModel.requestId + 1), result : Results]

(* The UI fires the response command. *)
response(resp) ==
  /\ uiPc = "idle" /\ viewStage # "none"
  /\ viewModel.subscribed
  /\ hist.responses < MaxResponses
  /\ LET first == /\ resp.ok /\ resp.id \notin DOMAIN hist.answered
                  /\ \E k \in DOMAIN hist.transmitted : hist.transmitted[k].id = resp.id
         m == [Model EXCEPT !.h.responses = @ + 1, !.h.lastResponse = resp,
                            !.h.answered =
                               IF first THEN (resp.id :> resp.result) @@ @ ELSE @]
     IN SetModel(onResponse(m, resp))
  /\ UNCHANGED <<tabId, serverVars, netVars, viewVars, uiPc>>

(* CDPServer.sendViewCommand: the history after it.  An exception of        *)
(* send_message_text is caught (line 132).                                  *)
sendViewCommand(id, h) ==
  IF id \notin DOMAIN clients THEN h
  ELSE [h EXCEPT !.written =
          Append(@, [conn |-> clients[id], open |-> clients[id] \in DOMAIN conns])]

(* The UI fires the sendCommand command: CDPView.onSendCommand, with or     *)
(* without a 'command' in its arguments.  The view calls the CDPServer it   *)
(* was built with, not the global `instance`.                               *)
onSendCommand(hasCommand) ==
  /\ uiPc = "idle" /\ viewStage = "ready"
  /\ hist.sends < MaxSends
  /\ LET h == [hist EXCEPT !.sends = @ + 1]
     IN hist' = IF hasCommand THEN sendViewCommand(PageId, h) ELSE h
  /\ UNCHANGED <<tabId, serverVars, netVars, viewVars, uiPc, viewModel>>

(* CDPView._finalize, line 163: super()._finalize() finalizes the CDPModel. *)
finalize163 ==
  /\ uiPc = "idle" /\ viewStage = "ready"
  /\ LET m == [Model EXCEPT !.h.teardowns = @ + 1,
                            !.h.assignedAtTeardown = Len(hist.assigned)]
     IN SetModel(modelFinalize(m))
  /\ viewStage' = "finalized"
  /\ uiPc' = "finalize165"
  /\ UNCHANGED <<tabId, serverVars, netVars, isThrottled, commandQueue, timers>>

(* CDPView._finalize, line 165, CDPServer.viewDispose *)
viewDispose ==
  /\ uiPc = "finalize165"
  /\ views' = [k \in (DOMAIN views) \ {PageId} |-> views[k]]
  /\ viewStage' = "disposed"
  /\ uiPc' = "idle"
  /\ UNCHANGED <<tabId, instance, serverOpen, clients, conns, netVars,
                 isThrottled, commandQueue, timers, viewModel, hist>>

(* The injector's onLoading, lines 51-55, for any other view: the next      *)
(* tabId, a CDPView with the id made of it, registered by its __init__.     *)
onLoading(className) ==
  /\ uiPc = "idle"
  /\ tabId < MaxTabs
  /\ pageId(className, tabId + 1) # PageId
  /\ tabId' = tabId + 1
  /\ LET view == [pageId |-> pageId(className, tabId + 1), pageName |-> className]
     IN /\ views' = populate(views, view)
        /\ hist' = [hist EXCEPT !.created = Append(@, view.pageId),
                                !.live = @ \cup {view}]
  /\ UNCHANGED <<instance, serverOpen, clients, conns, netVars, viewVars, uiPc, viewModel>>

(* CDPView._finalize of such a view: CDPServer.viewDispose(view) *)
pageFinalize(view) ==
  /\ uiPc = "idle"
  /\ view \in hist.live
  /\ views' = unregister(views, view)
  /\ hist' = [hist EXCEPT !.live = @ \ {view}]
  /\ UNCHANGED <<tabId, instance, serverOpen, clients, conns, netVars, viewVars, uiPc,
                 viewModel>>

(* CDPServer.dispose, line 137: instance = None *)
dispose137 ==
  /\ uiPc = "idle" /\ instance # None
  /\ instance' = None
  /\ uiPc' = "dispose139"
  /\ UNCHANGED <<tabId, serverOpen, views, clients, conns, netVars, viewVars, viewModel, hist>>

(* WebSocketServer.close() of simple_websocket_server: the listening socket *)
(* is closed and so is every live connection, each with its handle_close.   *)
serverClose(cs) ==
  [conns |-> <<>>,
   clients |-> [k \in (DOMAIN clients) \ {viewId(cs[c]) : c \in DOMAIN cs} |-> clients[k]]]

(* CDPServer.dispose, lines 139-143: enabled = False, server.close(); the UI *)
(* thread then waits in serverThread.join() (line 146).                      *)
dispose139 ==
  /\ uiPc = "dispose139"
  /\ serverOpen' = FALSE
  /\ conns' = serverClose(conns).conns
  /\ clients' = serverClose(conns).clients
  /\ hist' = [hist EXCEPT !.openAtClose = Cardinality(DOMAIN conns)]
  /\ uiPc' = "dispose146"
  /\ UNCHANGED <<tabId, instance, views, netVars, viewVars, viewModel>>

(* CDPServer.dispose, lines 145-148: serverThread.join() returns once the   *)
(* thread of _requestLoop has ended, and dispose returns.                   *)
dispose146 ==
  /\ uiPc = "dispose146"
  /\ netPc = "exited"
  /\ uiPc' = "idle"
  /\ UNCHANGED <<tabId, serverVars, netVars, viewVars, viewModel, hist>>

(* The network thread inside WSClient.handle and what it calls. *)
NetStep ==
  \/ handle54 \/ handle56 \/ handle64
  \/ onViewCommand117 \/ onViewCommand120
  \/ throttle146 \/ throttle148 \/ throttle149 \/ throttle150

(* The life of the view on the UI thread. *)
ViewLife ==
  \/ viewPopulate \/ init118 \/ init119
  \/ finalize163 \/ viewDispose

Next ==
  \/ \E c \in 1 .. MaxConns, path \in Paths : connected(c, path)
  \/ \E c \in 1 .. MaxConns : handle_close(c)
  \/ \E c \in 1 .. MaxConns, json \in BOOLEAN : frameReceived(c, json)
  \/ NetStep
  \/ ViewLife
  \/ throttleFlushRequests \/ flush158
  \/ connectionClosed
  \/ \E withCallback \in BOOLEAN : apiSendRequest(withCallback)
  \/ requestReceived
  \/ \E resp \in Responses : response(resp)
  \/ dispose137 \/ dispose139 \/ dispose146
  \/ requestLoopExit
  \/ \E hasCommand \in BOOLEAN : onSendCommand(hasCommand)
  \/ \E className \in ClassNames : onLoading(className)
  \/ \E view \in hist.live : pageFinalize(view)
  \/ jsonList

(* The whole program. *)
Spec == Init /\ [][Next]_vars

(***************************************************************************)
(* The throttle of one session: a client connected to the page's path, its *)
(* frames, the flush timer, connectionClosed and the life of the view.     *)
(* Left out is what never touches commandQueue, isThrottled, the timers or *)
(* the batches: the other connections, the UI's commands to the CDPModel   *)
(* (the gate stays as the first transmission leaves it) and the end of the *)
(* server.                                                                 *)
(***************************************************************************)
NextThrottle ==
  \/ connected(1, <<"ws", PageId>>)
  \/ \E json \in BOOLEAN : frameReceived(1, json)
  \/ NetStep
  \/ ViewLife
  \/ throttleFlushRequests \/ flush158
  \/ connectionClosed

SpecThrottle == Init /\ [][NextThrottle]_vars

(***************************************************************************)
(* The CDPModel of one session: every sequence of the calls it can get,    *)
(* all of them on the UI thread.  A batch of throttleFlushRequests reaches *)
(* it as a sendRequest without callback, which apiSendRequest(FALSE) is.   *)
(***************************************************************************)
NextModel ==
  \/ ViewLife
  \/ connectionClosed
  \/ \E withCallback \in BOOLEAN : apiSendRequest(withCallback)
  \/ requestReceived
  \/ \E resp \in Responses : response(resp)

SpecModel == Init /\ [][NextModel]_vars

(***************************************************************************)
(* The server: connections on any path, their frames, the registry and     *)
(* CDPServer.dispose.                                                      *)
(***************************************************************************)
NextServer ==
  \/ \E c \in 1 .. MaxConns, path \in Paths : connected(c, path)
  \/ \E c \in 1 .. MaxConns : handle_close(c)
  \/ \E c \in 1 .. MaxConns, json \in BOOLEAN : frameReceived(c, json)
  \/ NetStep
  \/ ViewLife
  \/ dispose137 \/ dispose139 \/ dispose146
  \/ requestLoopExit

SpecServer == Init /\ [][NextServer]_vars

(***************************************************************************)
(* The registry: the views the injector builds, their ends, and the        *)
(* /json/list requests of clients.                                         *)
(***************************************************************************)
NextRegistry ==
  \/ ViewLife
  \/ \E className \in ClassNames : onLoading(className)
  \/ \E view \in hist.live : pageFinalize(view)
  \/ jsonList

SpecRegistry == Init /\ [][NextRegistry]_vars

(***************************************************************************)
(* The connection map: clients that connect and close on any path, several *)
(* of them at a time, and the commands the UI of the view sends to its     *)
(* client.                                                                 *)
(***************************************************************************)
NextClients ==
  \/ \E c \in 1 .. MaxClients, path \in Paths : connected(c, path)
  \/ \E c \in 1 .. MaxClients : handle_close(c)
  \/ ViewLife
  \/ \E hasCommand \in BOOLEAN : onSendCommand(hasCommand)

SpecClients == Init /\ [][NextClients]_vars

(***************************************************************************)
(* The end of the server with a session in use: the throttle of one        *)
(* session, the commands its UI sends to the client, and CDPServer.dispose. *)
(***************************************************************************)
NextShutdown ==
  \/ connected(1, <<"ws", PageId>>)
  \/ handle_close(1)
  \/ \E json \in BOOLEAN : frameReceived(1, json)
  \/ NetStep
  \/ ViewLife
  \/ throttleFlushRequests \/ flush158
  \/ \E hasCommand \in BOOLEAN : onSendCommand(hasCommand)
  \/ dispose137 \/ dispose139 \/ dispose146
  \/ requestLoopExit

SpecShutdown == Init /\ [][NextShutdown]_vars

(* The server with both threads running: a thread that can take its next    *)
(* step takes it.  Nothing makes the UI thread call dispose, a client       *)
(* connect or send, or a view appear.                                       *)
SpecServerFair ==
  /\ SpecServer
  /\ WF_vars(NetStep)
  /\ WF_vars(requestLoopExit)
  /\ WF_vars(dispose139)
  /\ WF_vars(dispose146)


(***************************************************************************)
(* The claims.                                                             *)
(***************************************************************************)
RECURSIVE Flatten(_)
Flatten(ss) == IF ss = <<>> THEN <<>> ELSE Head(ss) \o Flatten(Tail(ss))

IsInfix(sub, s) ==
  \E i \in 0 .. (Len(s) - Len(sub)) : SubSeq(s, i + 1, i + Len(sub)) = sub

(* C1: the commands enqueued between the arming of the flush timer and its *)
(* firing are all in the one batch that firing hands to                     *)
(* viewModel.sendRequest, in enqueue order, and one arming produces no      *)
(* second batch.  The interval is one of a session in use: a                *)
(* connectionClosed between the arming and the firing discards the commands *)
(* queued so far (hist.lastClosed), which is the teardown of C6 and C9.     *)
BatchCoalescing ==
  /\ hist.batchesOfArm <= 1
  /\ (Len(hist.sentBatches) > 0 /\ ~hist.lastClosed)
       => IsInfix(hist.lastInterval, Last(hist.sentBatches))

(* A firing has handed over a batch that holds two commands enqueued while  *)
(* its timer was armed.                                                     *)
BatchCoalescingWitness ==
  /\ Len(hist.sentBatches) > 0
  /\ Len(hist.lastInterval) >= 2
  /\ ~hist.lastClosed

(* C2: while neither connectionClosed nor _finalize has run, the batches    *)
(* passed to viewModel.sendRequest so far, followed by the commandQueue,    *)
(* are the commands passed to commandReceived, in order.                    *)
NoCommandLost ==
  (hist.closes = 0 /\ hist.teardowns = 0)
    => Flatten(hist.sentBatches) \o commandQueue = hist.received

(* C7: once the view is unregistered, its teardown has handed exactly one   *)
(* DISCONNECT request to sendRequest and that request was transmitted.      *)
TeardownNotices ==
  {i \in DOMAIN hist.assigned :
     i > hist.assignedAtTeardown /\ hist.assigned[i].request.kind = "DISCONNECT"}

TeardownSendsDisconnect ==
  viewStage = "disposed" =>
    /\ Cardinality(TeardownNotices) = 1
    /\ \A i \in TeardownNotices :
         \E k \in DOMAIN hist.transmitted : hist.transmitted[k].id = hist.assigned[i].id

(* C8: no batch is transmitted (__setRequest) once CDPView._finalize has    *)
(* finalized the CDPModel of the view.                                      *)
NoEmissionAfterTeardown ==
  \A k \in DOMAIN hist.transmitted :
    hist.transmitted[k].late => hist.transmitted[k].request.kind # "batch"

(* C9: a firing that finds the commandQueue empty does not call             *)
(* viewModel.sendRequest: no empty batch is ever passed to it.              *)
EmptyFlushSendsNothing ==
  \A i \in DOMAIN hist.sentBatches : hist.sentBatches[i] # <<>>


(* C3: sendRequest assigns the ids 1, 2, 3, ... in call order, and no id is *)
(* stored in the callbacks map twice.                                       *)
RequestIdsUnique ==
  /\ \A i \in DOMAIN hist.assigned : hist.assigned[i].id = i
  /\ \A i, j \in DOMAIN hist.registered :
       hist.registered[i] = hist.registered[j] => i = j

(* Three requests were given ids, two of them registered a callback, and    *)
(* clearRequests has run.                                                   *)
RequestIdsUniqueWitness ==
  /\ Len(hist.assigned) >= 3
  /\ Len(hist.registered) >= 2
  /\ hist.closes >= 1

(* A step of __onResponse, and whether the id of its response is pending.   *)
ResponseStep == hist'.responses = hist.responses + 1

PendingId(resp) ==
  /\ resp.ok /\ resp.id # 0
  /\ ~viewModel.callbacksIsNone
  /\ resp.id \in DOMAIN viewModel.callbacks

(* C4: a response bearing a pending id removes the id from callbacks and    *)
(* invokes its callback once; any other response invokes nothing and leaves *)
(* callbacks, requestsQueue, requestId and lastRequestReceived as they are; *)
(* no id is answered by two invocations.                                    *)
CallbackAtMostOnce ==
  /\ [][ResponseStep =>
          LET resp == hist'.lastResponse
          IN IF PendingId(resp)
               THEN /\ viewModel' =
                         [viewModel EXCEPT !.callbacks =
                            [k \in (DOMAIN @) \ {resp.id} |-> @[k]]]
                    /\ Len(hist'.invoked) = Len(hist.invoked) + 1
                    /\ SubSeq(hist'.invoked, 1, Len(hist.invoked)) = hist.invoked
                    /\ Last(hist'.invoked).id = resp.id
                    /\ Last(hist'.invoked).callback = viewModel.callbacks[resp.id]
               ELSE /\ viewModel' = viewModel
                    /\ hist'.invoked = hist.invoked]_vars
  /\ [](\A k, l \in DOMAIN hist.invoked :
          hist.invoked[k].id = hist.invoked[l].id => k = l)

(* A second response to an answered id has been handled and ignored.        *)
CallbackAtMostOnceWitness ==
  /\ hist.responses = 2
  /\ Len(hist.invoked) = 1
  /\ hist.lastResponse.ok
  /\ hist.lastResponse.id = hist.invoked[1].id

(* C5: a request sent with a callback is in callbacks, under its id and     *)
(* with that callback, from its transmission until it is answered (or the   *)
(* CDPModel is finalized: C6); the first response to the id after the       *)
(* transmission invokes that callback with the result of that response, and *)
(* nothing else is ever invoked.                                            *)
Supplied(id) == hist.assigned[id].callback

Correlation ==
  /\ \A k \in DOMAIN hist.transmitted :
       LET id == hist.transmitted[k].id
       IN (Supplied(id) # NoCallback /\ id \notin DOMAIN hist.answered
             /\ ~viewModel.callbacksIsNone)
            => (id \in DOMAIN viewModel.callbacks /\ viewModel.callbacks[id] = Supplied(id))
  /\ \A id \in DOMAIN hist.answered :
       Supplied(id) # NoCallback =>
         \E k \in DOMAIN hist.invoked :
           /\ hist.invoked[k].id = id
           /\ hist.invoked[k].callback = Supplied(id)
           /\ hist.invoked[k].result = hist.answered[id]
  /\ \A k \in DOMAIN hist.invoked :
       /\ hist.invoked[k].id \in DOMAIN hist.answered
       /\ hist.invoked[k].callback = Supplied(hist.invoked[k].id)
       /\ hist.invoked[k].result = hist.answered[hist.invoked[k].id]

(* The second of two requests with callbacks was answered first, with "err", *)
(* while the first was still pending.                                        *)
CorrelationWitness ==
  /\ Len(hist.invoked) >= 1
  /\ hist.invoked[1].id = 2
  /\ hist.invoked[1].result = "err"
  /\ 1 \in DOMAIN viewModel.callbacks

(* C6: a callback that was pending when connectionClosed or _finalize ran   *)
(* is never invoked afterwards.                                             *)
DroppedNeverInvoked ==
  \A k \in DOMAIN hist.invoked : ~hist.invoked[k].dropped


(* C10: the network thread's handling of a frame whose path names no        *)
(* registered page (netFrame.unreg) raises nothing, changes neither views   *)
(* nor clients, and reaches neither commandReceived nor a commandQueue: it  *)
(* returns from WSClient.handle at line 54, 55 or 56.                       *)
UnknownPageFrameDropped ==
  [][(netPc # "idle" /\ netFrame.unreg /\ netPc' # netPc) =>
       /\ netError' = netError
       /\ views' = views
       /\ clients' = clients
       /\ commandQueue' = commandQueue
       /\ hist'.received = hist.received
       /\ netPc' \in {"idle", "handle56"}]_vars


(* What C2 and C10 hold of, apart from the two races that refute them.      *)
(* C2 with the commands left out that commandReceived raised on because the *)
(* view had no commandQueue yet (the race of C20):                          *)
RaisedCommands == {netError[i].n : i \in DOMAIN netError}

NoQueuedCommandLost ==
  (hist.closes = 0 /\ hist.teardowns = 0)
    => Flatten(hist.sentBatches) \o commandQueue
         = SelectSeq(hist.received, LAMBDA n : n \notin RaisedCommands)

(* C10 while the global `instance` stays set (the race of C17 is with       *)
(* CDPServer.dispose clearing it):                                          *)
UnknownPageFrameDroppedWhileServing ==
  [][(netPc # "idle" /\ netFrame.unreg /\ netPc' # netPc /\ instance # None) =>
       /\ netError' = netError
       /\ views' = views
       /\ clients' = clients
       /\ commandQueue' = commandQueue
       /\ hist'.received = hist.received
       /\ netPc' \in {"idle", "handle56"}]_vars

(* CDPServer.dispose has been called and has returned. *)
DisposeReturned == instance = None /\ uiPc \notin {"dispose139", "dispose146"}

NoActivityAfterDispose ==
  [][DisposeReturned =>
       /\ hist'.received = hist.received
       /\ hist'.written = hist.written
       /\ timers' >= timers]_vars

(* C12 without the timers: after dispose has returned nothing is dispatched *)
(* to a view and nothing is written to a client.                            *)
NoFrameAfterDispose ==
  [][DisposeReturned =>
       /\ hist'.received = hist.received
       /\ hist'.written = hist.written]_vars

(* The pages in the registry that are not yet unregistered by their         *)
(* _finalize: the views of onLoading and the view followed.                 *)
LivePages ==
  hist.live \cup (IF viewStage \in {"registered", "flag", "ready", "finalized"}
                   THEN {View} ELSE {})

(* C13: the last /json/list response has exactly one entry per page that    *)
(* was in CDPServer.views when the request was handled (none when it was    *)
(* empty), with pairwise distinct ids; the ids the injector makes are never *)
(* repeated, and the registry holds every live page under its own id and    *)
(* nothing else.                                                            *)
JsonListReflectsRegistry ==
  /\ Len(hist.lastList) = Cardinality(DOMAIN hist.listedViews)
  /\ {hist.lastList[i].id : i \in DOMAIN hist.lastList} = DOMAIN hist.listedViews
  /\ \A i, j \in DOMAIN hist.lastList :
       hist.lastList[i].id = hist.lastList[j].id => i = j
  /\ \A i, j \in DOMAIN hist.created : hist.created[i] = hist.created[j] => i = j
  /\ DOMAIN views = {v.pageId : v \in LivePages}
  /\ \A v \in LivePages : views[v.pageId] = v

(* Three pages were registered, one of them was unregistered, and the list  *)
(* returned after that has the two entries left.                            *)
JsonListReflectsRegistryWitness ==
  /\ Len(hist.created) = 3
  /\ Len(hist.lastList) = 2
  /\ hist.listedViews = views

(* Neither thread is inside throttleSendRequest or throttleFlushRequests.   *)
ThrottleAtRest == netPc \in {"idle", "exited"} /\ uiPc # "flush158"

(* C14: with both threads outside the throttle's two methods, the throttle  *)
(* is IDLE or ARMED: when isThrottled is False and no throttleFlushRequests *)
(* callback is pending, the commandQueue is empty.                          *)
IdleOrArmed ==
  (ThrottleAtRest /\ ~isThrottled /\ timers = 0) => commandQueue = <<>>

(* C15, in the form a finite run refutes.  With both threads outside the    *)
(* throttle's methods and no throttleFlushRequests callback pending,        *)
(* nothing more happens to the commandQueue until a later command arrives;  *)
(* so by then every command that throttleSendRequest has put in the queue   *)
(* (every command passed to commandReceived, but for those of the __init__  *)
(* race of C20) is in a batch handed to viewModel.sendRequest, as long as   *)
(* no teardown has occurred.                                                *)
DeliveredWithoutLaterCommand ==
  (ThrottleAtRest /\ timers = 0 /\ hist.closes = 0 /\ hist.teardowns = 0)
    => Flatten(hist.sentBatches)
         = SelectSeq(hist.received, LAMBDA n : n \notin RaisedCommands)

(* C16: at most one throttleFlushRequests callback of the view is pending,  *)
(* throttleSendRequest arms one only when none is pending, and one arming   *)
(* produces at most one batch.                                              *)
OneTimerPending ==
  /\ timers <= 1
  /\ netPc = "throttle150" => timers = 0
  /\ hist.batchesOfArm <= 1

(* A second timer is pending after the first has fired, with two commands   *)
(* enqueued under it.                                                       *)
OneTimerPendingWitness ==
  /\ timers = 1
  /\ Len(hist.sentBatches) >= 1
  /\ Len(commandQueue) >= 2

(* C17: dispatching a frame (WSClient.handle, then CDPServer.onViewCommand) *)
(* while the UI thread unregisters the page or disposes the server never    *)
(* raises: no exception comes out of the reads of `instance` and of the     *)
(* views registry (lines 56, 64, 117-120).                                  *)
RegistryDispatchNeverRaises ==
  \A i \in DOMAIN netError :
    netError[i].at \notin {"handle56", "handle64", "onViewCommand120"}

(* The part of C17 about viewDispose alone: onViewCommand raises no         *)
(* KeyError between its test of line 117 and its lookup of line 120.        *)
UnregisterDispatchNeverRaises ==
  \A i \in DOMAIN netError : netError[i].exc # "KeyError"

(* The open connections whose path names the page id. *)
ConnectionsOf(id) == {c \in DOMAIN conns : viewId(conns[c]) = id}

(* C18: the clients map has an entry for a page id exactly when a           *)
(* connection for that page is open, and the entry is one of those open     *)
(* connections.                                                             *)
ClientsTrackConnections ==
  \A id \in {PageId, UnknownId} :
    /\ id \in DOMAIN clients <=> ConnectionsOf(id) # {}
    /\ id \in DOMAIN clients => clients[id] \in ConnectionsOf(id)

(* C19: at most one request passed to __setRequest is not yet acknowledged  *)
(* by requestReceived; the gate is closed while one is; and the requests    *)
(* are passed to __setRequest in increasing id order, each at most once.    *)
SingleInFlight ==
  /\ hist.unacked <= 1
  /\ hist.unacked = 1 => ~viewModel.lastRequestReceived
  /\ \A k, l \in DOMAIN hist.transmitted :
       k < l => hist.transmitted[k].id < hist.transmitted[l].id

(* The second of three requests is outstanding after the first was          *)
(* acknowledged, and the third waits in requestsQueue.                      *)
SingleInFlightWitness ==
  /\ Len(hist.transmitted) = 2
  /\ hist.unacked = 1
  /\ Len(viewModel.requestsQueue) = 1

(* C20: a frame that onViewCommand dispatches to the view it found in the   *)
(* registry never finds the view without its commandQueue or isThrottled:   *)
(* commandReceived is entered only once __init__ has set both, and it       *)
(* raises nothing.                                                          *)
RegisteredViewInitialised ==
  /\ netPc = "throttle146" => viewStage \notin {"registered", "flag"}
  /\ \A i \in DOMAIN netError : netError[i].at # "throttle146"

====
